---- MODULE Spec2Model ----
(***************************************************************************)
(* The XML importer's form scripts as a state machine: the custom buttons  *)
(* of the "XML Import Settings" form (xml_import_settings.js) and of the   *)
(* "XML Import Configuration" form (part_000, and its shorter variant      *)
(* part_001), the dialogs they open, the RPCs they issue and the callbacks *)
(* that render the responses.  The server methods behind the RPCs are not  *)
(* among the source files; they are modelled from the specification.       *)
(***************************************************************************)
EXTENDS Integers, Sequences, FiniteSets, Bags, TLC

\* ------------------------------------------------------------------ bounds
\* Longest feed body / pasted blob, in tokens.
MaxLen == 4
\* RPCs issued in one run.
MaxCalls == 2

\* ------------------------------------------------------- feed content (XML)
\* A feed body is a sequence of tokens: opening and closing tags of a
\* container element "a" and of the element the import type matches
\* ("order"), a text chunk, and a whitespace chunk.
OpenTags == {"<a>", "<order>"}
CloseTags == {"</a>", "</order>"}
Tokens == OpenTags \cup CloseTags \cup {"x", " "}

TagOf(tok) ==
    CASE tok \in {"<a>", "</a>"} -> "a"
      [] tok \in {"<order>", "</order>"} -> "order"
      [] OTHER -> ""

RECURSIVE SeqsUpTo(_)
SeqsUpTo(n) ==
    IF n = 0 THEN {<<>>}
    ELSE LET shorter == SeqsUpTo(n - 1)
         IN shorter \cup {Append(s, t) : s \in {q \in shorter : Len(q) = n - 1}, t \in Tokens}

Contents == SeqsUpTo(MaxLen)

\* The feed body and the pasted blob of the general specification: a
\* well-formed document with one order.
SampleContents == {<<"<a>", "<order>", "</order>", "</a>">>}

\* The number of fetch attempts the aggressive check makes, as the confirm
\* dialog announces it.
AttemptCount == 5

\* ------------------------------------------------- server side: XML parsing
RECURSIVE StripLeft(_)
StripLeft(s) ==
    IF s # <<>> /\ Head(s) = " " THEN StripLeft(Tail(s)) ELSE s

RECURSIVE StripRight(_)
StripRight(s) ==
    IF s # <<>> /\ s[Len(s)] = " " THEN StripRight(SubSeq(s, 1, Len(s) - 1)) ELSE s

\* str.strip(): leading and trailing whitespace removed.
Strip(s) == StripRight(StripLeft(s))

\* One step of the parser over token tok.  st.stack holds the open elements,
\* st.root the document element's tag once seen, st.count the elements below
\* the root that match the import type, st.error the first parse error.
ParseStep(st, tok) ==
    IF st.error # "" THEN st
    ELSE IF tok = " " THEN st
    ELSE IF tok = "x" THEN
        IF st.stack = <<>> THEN [st EXCEPT !.error = "text outside the document element"]
        ELSE st
    ELSE IF tok \in OpenTags THEN
        IF st.stack = <<>> /\ st.root # "" THEN
            [st EXCEPT !.error = "junk after document element"]
        ELSE IF st.stack = <<>> THEN
            [st EXCEPT !.stack = <<TagOf(tok)>>, !.root = TagOf(tok)]
        ELSE
            [st EXCEPT !.stack = Append(@, TagOf(tok)),
                       !.count = IF TagOf(tok) = "order" THEN @ + 1 ELSE @]
    ELSE \* a closing tag
        IF st.stack = <<>> \/ st.stack[Len(st.stack)] # TagOf(tok) THEN
            [st EXCEPT !.error = "mismatched tag"]
        ELSE [st EXCEPT !.stack = SubSeq(@, 1, Len(@) - 1)]

RECURSIVE ParseFrom(_, _)
ParseFrom(st, s) ==
    IF s = <<>> THEN st ELSE ParseFrom(ParseStep(st, Head(s)), Tail(s))

\* The parse of a body: validity, root tag, matched element count, error.
ParseXml(s) ==
    LET st == ParseFrom([stack |-> <<>>, root |-> "", count |-> 0, error |-> ""], s)
        error == IF st.error # "" THEN st.error
                 ELSE IF st.root = "" THEN "no element found"
                 ELSE IF st.stack # <<>> THEN "unclosed element"
                 ELSE ""
    IN [xml_valid |-> error = "",
        root_tag |-> IF error = "" THEN st.root ELSE "",
        element_count |-> IF error = "" THEN st.count ELSE 0,
        parse_error |-> error]

\* ------------------------------------------------ server side: RPC methods
NoMessage == [kind |-> "none"]

\* check_stream_length: length, validity, root tag and element count of the
\* fetched body, or the parse error.
check_stream_length(body) ==
    LET p == ParseXml(body)
    IN [kind |-> "stream", content |-> body, content_length |-> Len(body),
        xml_valid |-> p.xml_valid, root_tag |-> p.root_tag,
        element_count |-> p.element_count, parse_error |-> p.parse_error]

\* debug_xml_feed: the fetch error, or the raw and stripped lengths and the
\* "mostly whitespace" flag of the fetched body.
debug_xml_feed(body, fetched) ==
    IF ~fetched THEN
        [kind |-> "debug", content |-> body, error |-> "fetch failed",
         content_length |-> 0, content_length_stripped |-> 0,
         is_mostly_whitespace |-> FALSE]
    ELSE
        [kind |-> "debug", content |-> body, error |-> "",
         content_length |-> Len(body),
         content_length_stripped |-> Len(Strip(body)),
         is_mostly_whitespace |-> Len(Strip(body)) = 0]

\* The outcome of the parse -> map -> persist pipeline on a body.
ImportStatus(body, persist_ok) ==
    IF ParseXml(body).xml_valid /\ persist_ok THEN "Success" ELSE "Failed"

\* import_from_pasted_content: the pipeline's result on the pasted blob.
import_from_pasted_content(xml_content, persist_ok) ==
    LET p == ParseXml(xml_content)
    IN [kind |-> "pasted", content |-> xml_content, content_length |-> Len(xml_content),
        xml_valid |-> p.xml_valid, root_tag |-> p.root_tag,
        element_count |-> p.element_count, parse_error |-> p.parse_error,
        import_status |-> ImportStatus(xml_content, persist_ok),
        errors |-> IF p.xml_valid /\ ~persist_ok THEN <<"item not saved">> ELSE <<>>]

\* trigger_manual_import: the pipeline's result on the live feed, as
\* {success, message}.
trigger_manual_import_result(body, persist_ok) ==
    [kind |-> "manual",
     success |-> ImportStatus(body, persist_ok) = "Success",
     message |-> IF ImportStatus(body, persist_ok) = "Success" THEN "imported"
                 ELSE "import failed"]

\* test_connection: {success, message}.
test_connection(fetched) ==
    [kind |-> "test", success |-> fetched,
     message |-> IF fetched THEN "connected" ELSE "cannot connect"]

\* What one fetch of the aggressive check observes.
Observations == {"orders", "empty", "error"}

\* The result of attempt n on observation o.
AttemptResult(n, o) ==
    [attempt |-> n, has_orders |-> o = "orders",
     content_length |-> IF o = "orders" THEN 200 ELSE 0,
     order_count |-> IF o = "orders" THEN 1 ELSE 0,
     import_triggered |-> o = "orders",
     error |-> IF o = "error" THEN "fetch failed" ELSE ""]

\* Faulty variant of AttemptsFrom: the loop goes on after orders were found.
RECURSIVE AttemptsFrom_no_stop(_, _)
AttemptsFrom_no_stop(obs, n) ==
    IF n > AttemptCount THEN <<>>
    ELSE <<AttemptResult(n, obs[n])>> \o AttemptsFrom_no_stop(obs, n + 1)

\* The attempts from the n-th on: the loop ends with the first attempt that
\* finds orders, or after AttemptCount attempts.
RECURSIVE AttemptsFrom(_, _)
AttemptsFrom(obs, n) ==
    IF n > AttemptCount THEN <<>>
    ELSE IF obs[n] = "orders" THEN <<AttemptResult(n, obs[n])>>
    ELSE <<AttemptResult(n, obs[n])>> \o AttemptsFrom(obs, n + 1)

\* aggressive_import_check: the attempt-by-attempt log.
aggressive_import_check(obs) ==
    LET results == AttemptsFrom(obs, 1)
    IN [kind |-> "aggressive", total_attempts |-> Len(results), results |-> results]

\* Whether an attempt of the log triggered an import.
AnyImportTriggered(results) == \E i \in 1..Len(results) : results[i].import_triggered

ObservationSeqs == [1..AttemptCount -> Observations]

\* Observation sequences the general specification draws from.
SampleObservations ==
    {[i \in 1..AttemptCount |-> "empty"],
     [i \in 1..AttemptCount |-> IF i = 2 THEN "orders" ELSE "error"]}

\* -------------------------------------------------------------- the state
VARIABLES
    script,         \* which form script is loaded
    doc,            \* frm.doc: the document the form displays
    stored,         \* the server holds the document (frm.is_new() is ~stored)
    buttons,        \* the custom buttons the last refresh added
    dialog,         \* the open modal dialog, or "none"
    form_disabled,  \* frm.disable_form() is in effect
    route,          \* "Form" or "List/XML Import Log"
    net,            \* the outstanding RPCs: a bag of requests and responses
    issued,         \* the number of RPCs issued so far
    msg,            \* the last frappe.msgprint: its title and rows
    alert,          \* the last frappe.show_alert
    sdoc,           \* the configuration record as the server stores it
    import_log,     \* the XML Import Log entries, oldest first
    imports_run,    \* the number of import attempts the server has run
    feed,           \* the body the feed URL serves
    clipboard,      \* the XML blob the operator has at hand to paste
    polls           \* what the successive fetches of an aggressive check observe

vars == <<script, doc, stored, buttons, dialog, form_disabled, route, net, issued,
          msg, alert, sdoc, import_log, imports_run, feed, clipboard, polls>>

ui_vars == <<doc, buttons, dialog, form_disabled, route, msg, alert>>
server_vars == <<stored, sdoc, import_log, imports_run>>
world_vars == <<script, feed, clipboard, polls>>

Scripts == {"settings", "part_000", "part_001"}
Urls == {"", "http://feed"}

is_new == ~stored

\* The label of the manual import button in each script.
ManualButton(sc) == IF sc = "settings" THEN "Manual Import" ELSE "Trigger Manual Import"

\* The refresh handler: the custom buttons it adds for document d.
refresh(sc, d, new) ==
    CASE sc = "settings" ->
            {"Test Connection", "View Import Logs"}
            \cup (IF d.enabled /\ d.xml_feed_url # "" THEN {"Manual Import"} ELSE {})
      [] sc = "part_000" ->
            (IF d.enabled /\ d.xml_feed_url # "" /\ ~new THEN {"Trigger Manual Import"} ELSE {})
            \cup (IF d.xml_feed_url # "" /\ ~new
                  THEN {"Check Stream Length", "Debug XML Feed", "Aggressive Import Check"}
                  ELSE {})
            \cup (IF ~new THEN {"Debug Import from Pasted XML"} ELSE {})
      [] sc = "part_001" ->
            IF d.enabled /\ d.xml_feed_url # "" /\ ~new THEN {"Trigger Manual Import"} ELSE {}

\* The buttons after the handler of an edited field has run: the settings
\* script's enabled and xml_feed_url handlers call frm.refresh(); the other
\* scripts register no handler for these fields.
field_handler(sc, d, new, shown) ==
    IF sc = "settings" THEN refresh(sc, d, new) ELSE shown

NoMsg == [title |-> "", rows |-> {}, attempts |-> <<>>]

InitWith(scripts, feeds, blobs, observations) ==
    /\ script \in scripts
    /\ stored \in (IF script = "settings" THEN {TRUE} ELSE BOOLEAN)
    /\ sdoc \in (IF stored
                 THEN [enabled : BOOLEAN, xml_feed_url : {"http://feed"}, last_import : {0}]
                 ELSE {[enabled |-> FALSE, xml_feed_url |-> "", last_import |-> 0]})
    /\ doc = sdoc
    /\ buttons = refresh(script, doc, ~stored)
    /\ dialog = "none"
    /\ form_disabled = FALSE
    /\ route = "Form"
    /\ net = EmptyBag
    /\ issued = 0
    /\ msg = NoMsg
    /\ alert = ""
    /\ import_log = <<>>
    /\ imports_run = 0
    /\ feed \in feeds
    /\ clipboard \in blobs
    /\ polls \in (IF script = "part_000" THEN observations
                  ELSE {[i \in 1..AttemptCount |-> "empty"]})

Init == InitWith(Scripts, SampleContents, SampleContents, SampleObservations)

\* The operator can act on the form: it is shown and no modal dialog is open.
FormIdle == route = "Form" /\ dialog = "none"

\* ------------------------------------------------------ edits of the form
\* The operator toggles the enabled field.
enabled ==
    /\ FormIdle /\ ~form_disabled
    /\ doc' = [doc EXCEPT !.enabled = ~@]
    /\ buttons' = field_handler(script, doc', is_new, buttons)
    /\ UNCHANGED <<dialog, form_disabled, route, msg, alert, net, issued>>
    /\ UNCHANGED <<server_vars, world_vars>>

\* The operator changes the feed URL field.
xml_feed_url ==
    /\ FormIdle /\ ~form_disabled
    /\ \E u \in Urls \ {doc.xml_feed_url} : doc' = [doc EXCEPT !.xml_feed_url = u]
    /\ buttons' = field_handler(script, doc', is_new, buttons)
    /\ UNCHANGED <<dialog, form_disabled, route, msg, alert, net, issued>>
    /\ UNCHANGED <<server_vars, world_vars>>

\* ------------------------------------------------------- issuing the RPCs
NoResponse == [exc |-> FALSE, message |-> NoMessage]

\* frappe.call({method, doc: frm.doc, args}): the request names the method
\* and carries the arguments (the methods modelled read the feed, not the
\* fields of the document sent along).
frappe_call(method, xml_content) ==
    /\ issued < MaxCalls
    /\ issued' = issued + 1
    /\ net' = net (+) SetToBag({[method |-> method, xml_content |-> xml_content,
                                 phase |-> "sent", r |-> NoResponse]})

\* Test Connection button of the settings form.
test_xml_connection ==
    /\ FormIdle /\ "Test Connection" \in buttons
    /\ IF doc.xml_feed_url = "" THEN
            /\ msg' = [NoMsg EXCEPT !.title = "Please enter XML Feed URL first"]
            /\ UNCHANGED <<alert, net, issued>>
       ELSE
            /\ alert' = "Testing connection..."
            /\ frappe_call("test_connection", <<>>)
            /\ UNCHANGED msg
    /\ UNCHANGED <<doc, buttons, dialog, form_disabled, route>>
    /\ UNCHANGED <<server_vars, world_vars>>

\* Faulty variant of manual_import_click: the RPC is issued by the click,
\* without frappe.confirm.
manual_import_click_unconfirmed ==
    /\ FormIdle /\ ManualButton(script) \in buttons
    /\ frappe_call("trigger_manual_import", <<>>)
    /\ UNCHANGED <<doc, buttons, dialog, form_disabled, route, msg, alert>>
    /\ UNCHANGED <<server_vars, world_vars>>

\* The manual import button: frappe.confirm opens.
manual_import_click ==
    /\ FormIdle /\ ManualButton(script) \in buttons
    /\ dialog' = "confirm_manual"
    /\ UNCHANGED <<doc, buttons, form_disabled, route, msg, alert, net, issued>>
    /\ UNCHANGED <<server_vars, world_vars>>

\* The confirmation is accepted: the settings script shows an alert,
\* disables the form and issues the RPC; the configuration scripts issue it.
trigger_manual_import ==
    /\ dialog = "confirm_manual"
    /\ dialog' = "none"
    /\ frappe_call("trigger_manual_import", <<>>)
    /\ IF script = "settings"
       THEN alert' = "Starting import..." /\ form_disabled' = TRUE
       ELSE UNCHANGED <<alert, form_disabled>>
    /\ UNCHANGED <<doc, buttons, route, msg>>
    /\ UNCHANGED <<server_vars, world_vars>>

\* A frappe.confirm is declined.
confirm_declined ==
    /\ dialog \in {"confirm_manual", "confirm_aggressive"}
    /\ dialog' = "none"
    /\ UNCHANGED <<doc, buttons, form_disabled, route, msg, alert, net, issued>>
    /\ UNCHANGED <<server_vars, world_vars>>

\* View Import Logs button of the settings form.
view_import_logs ==
    /\ FormIdle /\ "View Import Logs" \in buttons
    /\ route' = "List/XML Import Log"
    /\ UNCHANGED <<doc, buttons, dialog, form_disabled, msg, alert, net, issued>>
    /\ UNCHANGED <<server_vars, world_vars>>

\* The operator returns from the log list: the form is shown and refreshed.
form_shown ==
    /\ route = "List/XML Import Log"
    /\ route' = "Form"
    /\ buttons' = refresh(script, doc, is_new)
    /\ UNCHANGED <<doc, dialog, form_disabled, msg, alert, net, issued>>
    /\ UNCHANGED <<server_vars, world_vars>>

\* Check Stream Length button.
check_stream_length_click ==
    /\ FormIdle /\ "Check Stream Length" \in buttons
    /\ frappe_call("check_stream_length", <<>>)
    /\ UNCHANGED ui_vars
    /\ UNCHANGED <<server_vars, world_vars>>

\* Debug XML Feed button.
debug_xml_feed_click ==
    /\ FormIdle /\ "Debug XML Feed" \in buttons
    /\ frappe_call("debug_xml_feed", <<>>)
    /\ UNCHANGED ui_vars
    /\ UNCHANGED <<server_vars, world_vars>>

\* Aggressive Import Check button: frappe.confirm opens.
aggressive_import_check_click ==
    /\ FormIdle /\ "Aggressive Import Check" \in buttons
    /\ dialog' = "confirm_aggressive"
    /\ UNCHANGED <<doc, buttons, form_disabled, route, msg, alert, net, issued>>
    /\ UNCHANGED <<server_vars, world_vars>>

\* The aggressive check is confirmed.
aggressive_import_check_confirmed ==
    /\ dialog = "confirm_aggressive"
    /\ dialog' = "none"
    /\ frappe_call("aggressive_import_check", <<>>)
    /\ UNCHANGED <<doc, buttons, form_disabled, route, msg, alert>>
    /\ UNCHANGED <<server_vars, world_vars>>

\* Debug Import from Pasted XML button: the dialog with the textarea opens.
pasted_xml_click ==
    /\ FormIdle /\ "Debug Import from Pasted XML" \in buttons
    /\ dialog' = "paste"
    /\ UNCHANGED <<doc, buttons, form_disabled, route, msg, alert, net, issued>>
    /\ UNCHANGED <<server_vars, world_vars>>

\* The dialog's primary action with the textarea holding xml_content: the
\* RPC is issued and the dialog hidden only for non-empty content; for the
\* required field left empty get_values() reports the missing value.
pasted_xml_primary_action ==
    /\ dialog = "paste"
    /\ \E xml_content \in {<<>>, clipboard} :
        IF xml_content # <<>> THEN
            /\ frappe_call("import_from_pasted_content", xml_content)
            /\ dialog' = "none"
            /\ UNCHANGED msg
        ELSE
            /\ msg' = [NoMsg EXCEPT !.title = "Missing Values Required", !.rows = {"XML Content"}]
            /\ UNCHANGED <<dialog, net, issued>>
    /\ UNCHANGED <<doc, buttons, form_disabled, route, alert>>
    /\ UNCHANGED <<server_vars, world_vars>>

\* The paste dialog is closed without importing.
pasted_xml_closed ==
    /\ dialog = "paste"
    /\ dialog' = "none"
    /\ UNCHANGED <<doc, buttons, form_disabled, route, msg, alert, net, issued>>
    /\ UNCHANGED <<server_vars, world_vars>>

\* ------------------------------------------------------ the server's steps
Outstanding == BagToSet(net)

\* The outstanding RPC c has reached the server.
Sent(c, method) == c.phase = "sent" /\ c.method = method

\* Call c is replaced by d among the outstanding RPCs.
Replace(c, d) == net' = (net (-) SetToBag({c})) (+) SetToBag({d})

\* The server answers call c with message m.
Respond(c, m) ==
    Replace(c, [c EXCEPT !.phase = "responded", !.r = [exc |-> FALSE, message |-> m]])

\* Faulty variant of record_import: a failed attempt overwrites the newest
\* log entry instead of adding one.
record_import_overwriting(st) ==
    /\ import_log' = IF st = "Failed" /\ import_log # <<>>
                     THEN [import_log EXCEPT ![Len(import_log)] = [status |-> st]]
                     ELSE Append(import_log, [status |-> st])
    /\ imports_run' = imports_run + 1
    /\ sdoc' = [sdoc EXCEPT !.last_import = @ + 1]
    /\ UNCHANGED stored

\* One import attempt ends with status st: one Import Log entry is added and
\* the configuration record's last-import fields are updated.
record_import(st) ==
    /\ import_log' = Append(import_log, [status |-> st])
    /\ imports_run' = imports_run + 1
    /\ sdoc' = [sdoc EXCEPT !.last_import = @ + 1]
    /\ UNCHANGED stored

serve_trigger_manual_import ==
    \E c \in Outstanding, persist_ok \in BOOLEAN :
        /\ Sent(c, "trigger_manual_import")
        /\ Respond(c, trigger_manual_import_result(feed, persist_ok))
        /\ record_import(ImportStatus(feed, persist_ok))
        /\ UNCHANGED <<ui_vars, issued, world_vars>>

serve_check_stream_length ==
    \E c \in Outstanding :
        /\ Sent(c, "check_stream_length")
        /\ Respond(c, check_stream_length(feed))
        /\ UNCHANGED <<ui_vars, issued, server_vars, world_vars>>

serve_debug_xml_feed ==
    \E c \in Outstanding, fetched \in BOOLEAN :
        /\ Sent(c, "debug_xml_feed")
        /\ Respond(c, debug_xml_feed(feed, fetched))
        /\ UNCHANGED <<ui_vars, issued, server_vars, world_vars>>

\* The aggressive check over what its fetches observe; the import it
\* triggers is one import attempt.
serve_aggressive_import_check ==
    \E c \in Outstanding, persist_ok \in BOOLEAN :
        /\ Sent(c, "aggressive_import_check")
        /\ Respond(c, aggressive_import_check(polls))
        /\ IF AnyImportTriggered(aggressive_import_check(polls).results)
           THEN record_import(IF persist_ok THEN "Success" ELSE "Failed")
           ELSE persist_ok /\ UNCHANGED server_vars
        /\ UNCHANGED <<ui_vars, issued, world_vars>>

serve_import_from_pasted_content ==
    \E c \in Outstanding, persist_ok \in BOOLEAN :
        /\ Sent(c, "import_from_pasted_content")
        /\ Respond(c, import_from_pasted_content(c.xml_content, persist_ok))
        /\ record_import(ImportStatus(c.xml_content, persist_ok))
        /\ UNCHANGED <<ui_vars, issued, world_vars>>

serve_test_connection ==
    \E c \in Outstanding, fetched \in BOOLEAN :
        /\ Sent(c, "test_connection")
        /\ Respond(c, test_connection(fetched))
        /\ UNCHANGED <<ui_vars, issued, server_vars, world_vars>>

\* The method raises: the response carries exc and no message.
serve_raises ==
    \E c \in Outstanding :
        /\ c.phase = "sent"
        /\ Replace(c, [c EXCEPT !.phase = "responded",
                                !.r = [exc |-> TRUE, message |-> NoMessage]])
        /\ UNCHANGED <<ui_vars, issued, server_vars, world_vars>>

\* The call passes an error handler to frappe.call.
has_error_handler(c) ==
    \/ c.method = "test_connection"
    \/ c.method = "trigger_manual_import" /\ script = "settings"

\* The request fails in transport: frappe.call will run the call's error
\* handler; a call that passes none is over, and no code of the scripts runs.
transport_error ==
    \E c \in Outstanding :
        /\ c.phase = "sent"
        /\ IF has_error_handler(c)
           THEN Replace(c, [c EXCEPT !.phase = "failed"])
           ELSE net' = net (-) SetToBag({c})
        /\ UNCHANGED <<ui_vars, issued, server_vars, world_vars>>

\* ------------------------------------------------ rendering the responses
\* Faulty variant of import_succeeded: any message counts as success.
import_succeeded_any_message(r) == r.message.kind # "none"

\* if (r.message && r.message.success), of the settings script.
import_succeeded(r) == r.message.kind # "none" /\ r.message.success

\* if (r.message && r.message.success), of test_xml_connection.
connection_ok(r) == r.message.kind # "none" /\ r.message.success

\* if (!r.exc), of the configuration scripts' manual import callback.
import_triggered_ok(r) == ~r.exc

\* if (!r.exc && r.message), of the other callbacks.
has_result(r) == ~r.exc /\ r.message.kind # "none"

\* Faulty variant of render_stream: the parse error row is always added.
render_stream_always_error(result) ==
    {"Content Length", "XML Valid", "First Characters", "Parse Error"}
    \cup (IF result.xml_valid THEN {"Root Element", "Elements Found"} ELSE {})

\* The rows of the XML Stream Analysis table.
render_stream(result) ==
    {"Content Length", "XML Valid", "First Characters"}
    \cup (IF result.xml_valid THEN {"Root Element", "Elements Found"} ELSE {"Parse Error"})
    \cup (IF result.xml_valid /\ result.element_count = 0 THEN {"No elements found"} ELSE {})

\* Faulty variant of render_debug: the whitespace warning is left out.
render_debug_no_warning(result) ==
    {"URL"}
    \cup (IF result.error # "" THEN {"Error"}
          ELSE {"Status Code", "Content Length", "Content Type", "Authentication Used",
                "Raw Content", "Formatted Content"})

\* The rows of the XML Feed Debug table.
render_debug(result) ==
    {"URL"}
    \cup (IF result.error # "" THEN {"Error"}
          ELSE {"Status Code", "Content Length", "Content Type", "Authentication Used",
                "Raw Content", "Formatted Content"}
               \cup (IF result.is_mostly_whitespace
                     THEN {"Content is mostly whitespace"} ELSE {}))

\* The Status column of one attempt of the aggressive check.
attempt_status(attempt) ==
    IF attempt.error # "" THEN "Error"
    ELSE IF attempt.has_orders THEN
        IF attempt.import_triggered THEN "orders found! Import triggered!" ELSE "orders found!"
    ELSE IF attempt.content_length > 100 THEN "Empty orders"
    ELSE "No Data"

\* let importTriggered = result.results.some(r => r.import_triggered)
importTriggered(result) ==
    \E i \in 1..Len(result.results) : result.results[i].import_triggered

\* The rows of the Pasted XML Import Results table.
render_pasted(result) ==
    {"Import Type", "Content Length", "XML Valid"}
    \cup (IF result.xml_valid
          THEN {"Root Element", "Elements Found", "Import Status"}
               \cup (IF Len(result.errors) > 0 THEN {"Errors"} ELSE {})
          ELSE {"Parse Error"})

\* if (result.import_status === 'Success'), of the pasted import callback.
pasted_import_done(result) == result.import_status = "Success"

\* ------------------------------------------------------------ the callbacks
\* The response of the outstanding RPC c has arrived.
Responded(c, method) == c.phase = "responded" /\ c.method = method
Failed(c, method) == c.phase = "failed" /\ c.method = method

\* The RPC c is no longer outstanding.
Remove(c) == net' = net (-) SetToBag({c})

\* frm.reload_doc(): the form shows the stored document and is refreshed.
reload_doc ==
    /\ doc' = IF stored THEN sdoc ELSE doc
    /\ buttons' = refresh(script, doc', is_new)

Titled(title) == [NoMsg EXCEPT !.title = title]

\* callback of test_xml_connection.
test_connection_callback ==
    \E c \in Outstanding :
        /\ Responded(c, "test_connection")
        /\ IF connection_ok(c.r)
           THEN /\ alert' = "connected"
                /\ msg' = Titled("Connection Test Successful")
           ELSE /\ alert' = "Connection test failed"
                /\ msg' = Titled("Connection Test Failed")
        /\ Remove(c)
        /\ UNCHANGED <<doc, buttons, dialog, form_disabled, route, issued>>
        /\ UNCHANGED <<server_vars, world_vars>>

\* error handler of test_xml_connection.
test_connection_error ==
    \E c \in Outstanding :
        /\ Failed(c, "test_connection")
        /\ alert' = "Connection test failed"
        /\ Remove(c)
        /\ UNCHANGED <<doc, buttons, dialog, form_disabled, route, msg, issued>>
        /\ UNCHANGED <<server_vars, world_vars>>

\* callback of trigger_manual_import in the settings script: the form is
\* enabled; on success the document is reloaded.
settings_import_callback ==
    \E c \in Outstanding :
        /\ script = "settings" /\ Responded(c, "trigger_manual_import")
        /\ form_disabled' = FALSE
        /\ IF import_succeeded(c.r)
           THEN /\ alert' = "Import completed successfully"
                /\ msg' = Titled("Import Successful")
                /\ reload_doc
           ELSE /\ alert' = "Import failed"
                /\ msg' = Titled("Import Failed")
                /\ UNCHANGED <<doc, buttons>>
        /\ Remove(c)
        /\ UNCHANGED <<dialog, route, issued>>
        /\ UNCHANGED <<server_vars, world_vars>>

\* error handler of trigger_manual_import in the settings script.
settings_import_error ==
    \E c \in Outstanding :
        /\ script = "settings" /\ Failed(c, "trigger_manual_import")
        /\ form_disabled' = FALSE
        /\ alert' = "Import failed"
        /\ msg' = Titled("Import Error")
        /\ Remove(c)
        /\ UNCHANGED <<doc, buttons, dialog, route, issued>>
        /\ UNCHANGED <<server_vars, world_vars>>

\* callback of trigger_manual_import in the configuration scripts.
configuration_import_callback ==
    \E c \in Outstanding :
        /\ script # "settings" /\ Responded(c, "trigger_manual_import")
        /\ IF import_triggered_ok(c.r)
           THEN /\ msg' = Titled("Manual import has been triggered successfully.")
                /\ reload_doc
           ELSE /\ UNCHANGED <<msg, doc, buttons>>
        /\ Remove(c)
        /\ UNCHANGED <<dialog, form_disabled, route, alert, issued>>
        /\ UNCHANGED <<server_vars, world_vars>>

\* callback of the Check Stream Length call.
check_stream_length_callback ==
    \E c \in Outstanding :
        /\ Responded(c, "check_stream_length")
        /\ IF has_result(c.r)
           THEN msg' = [title |-> "XML Stream Analysis",
                        rows |-> render_stream(c.r.message), attempts |-> <<>>]
           ELSE UNCHANGED msg
        /\ Remove(c)
        /\ UNCHANGED <<doc, buttons, dialog, form_disabled, route, alert, issued>>
        /\ UNCHANGED <<server_vars, world_vars>>

\* callback of the Debug XML Feed call.
debug_xml_feed_callback ==
    \E c \in Outstanding :
        /\ Responded(c, "debug_xml_feed")
        /\ IF has_result(c.r)
           THEN msg' = [title |-> "XML Feed Debug",
                        rows |-> render_debug(c.r.message), attempts |-> <<>>]
           ELSE UNCHANGED msg
        /\ Remove(c)
        /\ UNCHANGED <<doc, buttons, dialog, form_disabled, route, alert, issued>>
        /\ UNCHANGED <<server_vars, world_vars>>

\* callback of the Aggressive Import Check call: the attempts' statuses and
\* the closing alert; the document is reloaded when an import was triggered.
aggressive_import_check_callback ==
    \E c \in Outstanding :
        /\ Responded(c, "aggressive_import_check")
        /\ IF has_result(c.r) THEN
             LET result == c.r.message IN
             /\ msg' = [title |-> "Aggressive Import Check Results",
                        rows |-> IF importTriggered(result)
                                 THEN {"Import was triggered!"} ELSE {"No orders found"},
                        attempts |-> [k \in 1..Len(result.results) |->
                                        attempt_status(result.results[k])]]
             /\ IF importTriggered(result)
                THEN reload_doc
                ELSE UNCHANGED <<doc, buttons>>
           ELSE UNCHANGED <<msg, doc, buttons>>
        /\ Remove(c)
        /\ UNCHANGED <<dialog, form_disabled, route, alert, issued>>
        /\ UNCHANGED <<server_vars, world_vars>>

\* callback of the pasted import call.
pasted_import_callback ==
    \E c \in Outstanding :
        /\ Responded(c, "import_from_pasted_content")
        /\ IF has_result(c.r) THEN
             LET result == c.r.message IN
             /\ msg' = [title |-> "Pasted XML Import Results",
                        rows |-> render_pasted(result), attempts |-> <<>>]
             /\ IF pasted_import_done(result)
                THEN reload_doc
                ELSE UNCHANGED <<doc, buttons>>
           ELSE UNCHANGED <<msg, doc, buttons>>
        /\ Remove(c)
        /\ UNCHANGED <<dialog, form_disabled, route, alert, issued>>
        /\ UNCHANGED <<server_vars, world_vars>>

\* ------------------------------------------------------- the specification
Next ==
    \/ enabled \/ xml_feed_url
    \/ test_xml_connection \/ manual_import_click \/ trigger_manual_import
    \/ confirm_declined \/ view_import_logs \/ form_shown
    \/ check_stream_length_click \/ debug_xml_feed_click
    \/ aggressive_import_check_click \/ aggressive_import_check_confirmed
    \/ pasted_xml_click \/ pasted_xml_primary_action \/ pasted_xml_closed
    \/ serve_trigger_manual_import \/ serve_check_stream_length
    \/ serve_debug_xml_feed \/ serve_aggressive_import_check
    \/ serve_import_from_pasted_content \/ serve_test_connection
    \/ serve_raises \/ transport_error
    \/ test_connection_callback \/ test_connection_error
    \/ settings_import_callback \/ settings_import_error
    \/ configuration_import_callback \/ check_stream_length_callback
    \/ debug_xml_feed_callback \/ aggressive_import_check_callback
    \/ pasted_import_callback

Spec == Init /\ [][Next]_vars

\* A stored, enabled configuration with a feed URL, as the form shows it.
ConfiguredDoc == [enabled |-> TRUE, xml_feed_url |-> "http://feed", last_import |-> 0]

InitConfigured(feeds, blobs, observations) ==
    /\ InitWith({"part_000"}, feeds, blobs, observations)
    /\ stored
    /\ sdoc = ConfiguredDoc

\* The analysis of one content: the feed body, or the pasted blob, is any
\* content up to MaxLen, and one inspection or pasted import is made of it.
InitContent ==
    \/ InitConfigured(Contents, SampleContents, {[i \in 1..AttemptCount |-> "empty"]})
    \/ InitConfigured(SampleContents, Contents, {[i \in 1..AttemptCount |-> "empty"]})

NextContent ==
    \/ issued = 0 /\ check_stream_length_click
    \/ issued = 0 /\ debug_xml_feed_click
    \/ issued = 0 /\ pasted_xml_click
    \/ pasted_xml_primary_action
    \/ pasted_xml_closed
    \/ serve_check_stream_length
    \/ serve_debug_xml_feed
    \/ serve_import_from_pasted_content
    \/ serve_raises
    \/ transport_error
    \/ check_stream_length_callback
    \/ debug_xml_feed_callback
    \/ pasted_import_callback

SpecContent == InitContent /\ [][NextContent]_vars

\* One aggressive check over any sequence of observations.
InitAggressive == InitConfigured(SampleContents, SampleContents, ObservationSeqs)

NextAggressive ==
    \/ issued = 0 /\ aggressive_import_check_click
    \/ aggressive_import_check_confirmed
    \/ confirm_declined
    \/ serve_aggressive_import_check
    \/ serve_raises
    \/ transport_error
    \/ aggressive_import_check_callback

SpecAggressive == InitAggressive /\ [][NextAggressive]_vars

\* ------------------------------------------------------------- the claims
\* A call whose callback has a result to render.
Answered(c, method) == c.phase = "responded" /\ c.method = method /\ ~c.r.exc

\* The first attempt that observes orders, or 0.
FirstWithOrders ==
    IF \E k \in 1..AttemptCount : polls[k] = "orders"
    THEN CHOOSE k \in 1..AttemptCount :
            polls[k] = "orders" /\ \A j \in 1..(k - 1) : polls[j] # "orders"
    ELSE 0

\* C1: of an aggressive check, the attempts are numbered 1..N with N at most
\* the announced count; when an attempt finds orders, the first such attempt
\* is the last of the log, has has_orders and import_triggered set, and one
\* import was run; when none does, the log holds exactly the announced count
\* of attempts, none with import_triggered, and no import was run.  The
\* dialog rendered from the log says so.
AggressiveCheckLog ==
    /\ \A c \in Outstanding :
        Answered(c, "aggressive_import_check") =>
            LET res == c.r.message.results
                N == Len(res)
            IN /\ N \in 1..AttemptCount
               /\ c.r.message.total_attempts = N
               /\ \A k \in 1..N : res[k].attempt = k
               /\ IF FirstWithOrders # 0
                  THEN /\ N = FirstWithOrders
                       /\ res[N].has_orders /\ res[N].import_triggered
                       /\ \A k \in 1..(N - 1) : ~res[k].has_orders /\ ~res[k].import_triggered
                       /\ imports_run = 1 /\ Len(import_log) = 1
                  ELSE /\ N = AttemptCount
                       /\ \A k \in 1..N : ~res[k].import_triggered
                       /\ imports_run = 0 /\ import_log = <<>>
    /\ msg.title = "Aggressive Import Check Results" =>
        /\ Len(msg.attempts) = (IF FirstWithOrders # 0 THEN FirstWithOrders ELSE AttemptCount)
        /\ "Import was triggered!" \in msg.rows <=> FirstWithOrders # 0
        /\ "No orders found" \in msg.rows <=> FirstWithOrders = 0

\* Orders were first found by the third attempt, and the log was rendered.
AggressiveCheckStoppedEarly ==
    /\ FirstWithOrders = 3
    /\ msg.title = "Aggressive Import Check Results"
    /\ Len(msg.attempts) = 3
    /\ imports_run = 1

\* Well-formedness of a document, told from its text: between insignificant
\* whitespace there is one element, an opening tag and its closing tag
\* around content whose tags pair off.
IsTag(tok) == tok \in OpenTags \cup CloseTags

PairAt(s, i) ==
    s[i] \in OpenTags /\ s[i + 1] \in CloseTags /\ TagOf(s[i]) = TagOf(s[i + 1])

RECURSIVE PairedOff(_)
PairedOff(s) ==
    IF \E i \in 1..(Len(s) - 1) : PairAt(s, i)
    THEN LET i == CHOOSE j \in 1..(Len(s) - 1) : PairAt(s, j)
         IN PairedOff(SubSeq(s, 1, i - 1) \o SubSeq(s, i + 2, Len(s)))
    ELSE s = <<>>

WellFormed(s) ==
    LET core == Strip(s)
    IN /\ Len(core) >= 2
       /\ core[1] \in OpenTags /\ core[Len(core)] \in CloseTags
       /\ TagOf(core[1]) = TagOf(core[Len(core)])
       /\ PairedOff(SelectSeq(SubSeq(core, 2, Len(core) - 1), IsTag))

RootElement(s) == TagOf(Strip(s)[1])

\* The elements below the root that match the import type.
MatchingElements(s) ==
    Cardinality({i \in 2..Len(Strip(s)) : Strip(s)[i] = "<order>"})

\* The analysis of a content, by check_stream_length or by the pasted import.
AnalysisCorrect(result) ==
    IF WellFormed(result.content)
    THEN /\ result.xml_valid
         /\ result.root_tag = RootElement(result.content)
         /\ result.element_count = MatchingElements(result.content)
         /\ result.parse_error = ""
    ELSE ~result.xml_valid /\ result.parse_error # ""

\* The table shows the root and the element count exactly for content that
\* is well-formed, and the parse error exactly for content that is not.
RendersAnalysisOf(content) ==
    /\ "Root Element" \in msg.rows <=> WellFormed(content)
    /\ "Elements Found" \in msg.rows <=> WellFormed(content)
    /\ "Parse Error" \in msg.rows <=> ~WellFormed(content)

\* C3: the analysis of well-formed content has xml_valid set, the document's
\* root tag and its number of matching elements, and no parse error; that of
\* malformed content has xml_valid unset and a parse error; the dialogs show
\* root tag and element count only for valid content and the parse error
\* only for invalid content.
XmlAnalysisCorrectAndRendered ==
    /\ \A c \in Outstanding :
        /\ Answered(c, "check_stream_length") =>
              c.r.message.content = feed /\ AnalysisCorrect(c.r.message)
        /\ Answered(c, "import_from_pasted_content") =>
              c.r.message.content = clipboard /\ AnalysisCorrect(c.r.message)
    /\ msg.title = "XML Stream Analysis" => RendersAnalysisOf(feed)
    /\ msg.title = "Pasted XML Import Results" => RendersAnalysisOf(clipboard)

\* A well-formed feed with an order below its root was analysed and rendered.
StreamAnalysisRendered ==
    /\ WellFormed(feed) /\ MatchingElements(feed) = 1
    /\ msg.title = "XML Stream Analysis"
    /\ "Root Element" \in msg.rows

\* The body is empty or holds whitespace only.
WhitespaceOnly(s) == \A i \in 1..Len(s) : s[i] = " "

\* C6: a fetched feed that is empty or all whitespace is flagged
\* is_mostly_whitespace with content_length_stripped 0, and the debug dialog
\* shows the whitespace warning for it; a feed with other content is not
\* flagged and gets no warning.
WhitespaceFeedFlagged ==
    /\ \A c \in Outstanding :
        Answered(c, "debug_xml_feed") /\ c.r.message.error = "" =>
            /\ c.r.message.content = feed
            /\ c.r.message.is_mostly_whitespace <=> WhitespaceOnly(feed)
            /\ WhitespaceOnly(feed) => c.r.message.content_length_stripped = 0
    /\ msg.title = "XML Feed Debug" /\ "Error" \notin msg.rows =>
        ("Content is mostly whitespace" \in msg.rows <=> WhitespaceOnly(feed))

\* A feed of whitespace only was fetched and the warning shown.
WhitespaceWarningShown ==
    /\ feed # <<>> /\ WhitespaceOnly(feed)
    /\ msg.title = "XML Feed Debug"
    /\ "Content is mostly whitespace" \in msg.rows

\* The callback (or error handler) of call c runs in this step.
Delivered(c) ==
    /\ c \in Outstanding
    /\ c.phase \in {"responded", "failed"}
    /\ net' = net (-) SetToBag({c})

\* The response of call c carries an error in a structured field.
CarriesError(c) ==
    /\ c.phase = "responded" /\ c.r.message.kind # "none"
    /\ LET m == c.r.message
       IN CASE m.kind \in {"manual", "test"} -> ~m.success
            [] m.kind = "debug" -> m.error # ""
            [] m.kind = "stream" -> m.parse_error # ""
            [] m.kind = "pasted" -> m.parse_error # "" \/ Len(m.errors) > 0
            [] m.kind = "aggressive" -> \E k \in 1..Len(m.results) : m.results[k].error # ""

SuccessMessages ==
    {"Import Successful", "Connection Test Successful",
     "Manual import has been triggered successfully."}

\* The message box reports an error of the response.
ShowsError(m) ==
    \/ m.title \in {"Import Failed", "Connection Test Failed"}
    \/ m.rows \cap {"Error", "Parse Error", "Errors"} # {}
    \/ \E k \in 1..Len(m.attempts) : m.attempts[k] = "Error"

\* C2: whenever the response handed to a callback carries an error field,
\* the callback shows that error, and it shows no success message.
ErrorsAreShown ==
    [][\A c \in Outstanding :
          Delivered(c) /\ CarriesError(c) =>
              ShowsError(msg') /\ msg'.title \notin SuccessMessages]_vars

\* C5: the import log only grows, by one entry per import attempt the server
\* runs, and its entries never change; the stored configuration record is
\* never deleted.
ImportLogAppendOnly ==
    /\ Len(import_log) = imports_run
    /\ [][/\ Len(import_log') >= Len(import_log)
          /\ SubSeq(import_log', 1, Len(import_log)) = import_log
          /\ Len(import_log') - Len(import_log) = imports_run' - imports_run
          /\ imports_run' - imports_run \in {0, 1}
          /\ stored => stored']_vars

\* Two imports have run, the first failed and the second succeeded.
TwoImportsLogged ==
    /\ imports_run = 2
    /\ import_log = <<[status |-> "Failed"], [status |-> "Success"]>>

\* C7: the manual import button is offered if and only if the document is
\* enabled and has a feed URL (and, in the configuration form, is not new).
ManualImportOfferedIffAllowed ==
    ManualButton(script) \in buttons
        <=> /\ doc.enabled /\ doc.xml_feed_url # ""
            /\ (script = "settings" \/ ~is_new)

ImportOutstanding == \E c \in Outstanding : c.method = "trigger_manual_import"

\* C8: in the settings form, the form is disabled while a manual import RPC
\* is outstanding and enabled when none is.
FormDisabledDuringImport ==
    script = "settings" => (form_disabled <=> ImportOutstanding)

\* The import the response of call c reports is done.
ReportedDone(c) ==
    /\ c.phase = "responded" /\ ~c.r.exc /\ c.r.message.kind # "none"
    /\ LET m == c.r.message
       IN CASE m.kind = "manual" -> m.success
            [] m.kind = "aggressive" -> \E k \in 1..Len(m.results) : m.results[k].import_triggered
            [] m.kind = "pasted" -> m.import_status = "Success"
            [] OTHER -> FALSE

\* The import actions the claim covers.
ImportAction(c) ==
    \/ c.method = "trigger_manual_import" /\ script = "settings"
    \/ c.method \in {"aggressive_import_check", "import_from_pasted_content"}

\* C9: the callback of an import action leaves the displayed document and
\* its buttons as they are unless the response reports the import as done.
ReloadOnlyWhenDone ==
    [][\A c \in Outstanding :
          Delivered(c) /\ ImportAction(c) /\ ~ReportedDone(c) =>
              doc' = doc /\ buttons' = buttons]_vars

\* The settings form shows a failed import while it holds unsaved edits.
FailedImportLeftEdits ==
    /\ script = "settings"
    /\ msg.title = "Import Failed"
    /\ doc # sdoc
    /\ ~ImportOutstanding

\* Call c is issued in this step.
IssuedCall(c) == c.phase = "sent" /\ net' = net (+) SetToBag({c})

\* C10: an RPC is issued one at a time; trigger_manual_import and
\* aggressive_import_check only by the step that closes their confirm
\* dialog, import_from_pasted_content only from the paste dialog holding
\* non-empty content, test_connection only for a non-empty feed URL; the
\* message asking for the URL is shown without issuing anything.
NoImportWithoutConfirmation ==
    [][/\ issued' # issued =>
            /\ issued' = issued + 1
            /\ BagCardinality(net') = BagCardinality(net) + 1
            /\ \E c \in BagToSet(net') :
                /\ IssuedCall(c)
                /\ c.method = "trigger_manual_import" =>
                        dialog = "confirm_manual" /\ dialog' = "none"
                /\ c.method = "aggressive_import_check" =>
                        dialog = "confirm_aggressive" /\ dialog' = "none"
                /\ c.method = "import_from_pasted_content" =>
                        dialog = "paste" /\ c.xml_content # <<>>
                /\ c.method = "test_connection" => doc.xml_feed_url # ""
       /\ issued' = issued => BagCardinality(net') <= BagCardinality(net)
       /\ (msg' # msg /\ msg'.title = "Please enter XML Feed URL first") =>
            issued' = issued /\ net' = net]_vars

\* A confirmed manual import is outstanding while another confirmation is open.
ConfirmedImportOutstanding ==
    /\ ImportOutstanding
    /\ dialog = "confirm_manual"
    /\ issued = 1

====
